---- MODULE Spec2Model ----
(***************************************************************************)
(* Model of the sqltest test-fixture helpers: the container constructors   *)
(* NewDockerDB, NewMySQL, NewPostgres, NewMemcached and their WithOptions  *)
(* forms, their cleanup closures, and the seeder PrepDatabase.             *)
(*                                                                         *)
(* Strings the code inspects byte by byte (environment entries, DSNs) are  *)
(* sequences of one-character strings; strings it only passes around       *)
(* (image names, tags, messages) are TLA+ strings.                         *)
(***************************************************************************)
EXTENDS Integers, Sequences, FiniteSets, TLC

VARIABLES
    api,            \* which constructor is called: "options" (New..WithOptions),
                    \* "default" (New..(t) of the same version) or "positional"
    kind,           \* "mysql", "postgres" or "memcached"
    tagArg,         \* the tag argument of the positional constructors ("" otherwise)
    runOpts,        \* the caller's ordered list of RunOption functions
    pc,             \* position of the constructor call / cleanup
    i,              \* index of the next RunOption to apply
    defaultRunOpts, \* the dockertest.RunOptions under construction
    pass,           \* password captured by the DSN closure
    dbName,         \* database name captured by the DSN closure
    launched,       \* the RunOptions handed to pool.RunWithOptions, or NoSpec
    container,      \* "none", "running" or "purged"
    actualPort,     \* resource.GetHostPort(containerPort)
    clock,          \* seconds since the constructor was entered
    ctxDeadline,    \* deadline of the context made by context.WithTimeout
    retryStart,     \* time at which pool.Retry was entered
    ready,          \* whether the service inside the container accepts requests
    nclients,       \* number of client objects created so far (ids 1..nclients)
    openClients,    \* ids of the client objects not closed
    probed,         \* ids of the client objects whose probe succeeded
    probeTime,      \* time of the successful probe, or -1
    db,             \* the variable `db` (NewDockerDB) / `client` (memcached): 0 is nil
    dsn,            \* the DSN of the last sql.Open
    handle,         \* the client returned to the caller, 0 while none
    calls,          \* Purge / Fatalf / Close / Logf calls made, in order
    fatalMsg,       \* which t.Fatalf ended the call, "" while none
    cache,          \* contents of the memcached server: set of <<key, value>>
    setups,         \* the InitialDBSetup units handed to PrepDatabase
    ppc,            \* position inside PrepDatabase, "idle" while it is not called
    unit,           \* index of the unit the loop `for _, setup := range setups` is at
    stmt,           \* index of the next statement of setup.InitialData
    applied,        \* statements whose effect is durable and visible, in order
    pending,        \* statements executed in the open transaction, not committed
    sent,           \* every operation PrepDatabase asked of the database, in order
    failed,         \* the operation that returned an error, << >> while none
    prepErr,        \* the error the seeding call returned: "" while running, "nil" on success
    initialData,    \* the map[string]string handed to PrepMemcached
    remaining,      \* keys of initialData the range loop has not come to yet
    invs,           \* constructor calls running side by side: call -> its local variables
    objs,           \* the RunOptions structs allocated so far; a pointer is an index
    conts,          \* the containers the runtime has started so far; an id is an index
    clients,        \* the client objects created so far; an id is an index
    envArg,         \* getEnvValue called on its own: the list it is handed
    keyArg,         \* the key it is handed
    got             \* what it returned, <<"none">> before the call

ctorVars == <<api, kind, tagArg, runOpts, pc, i, defaultRunOpts, pass, dbName,
              launched, container, actualPort, clock, ctxDeadline, retryStart,
              ready, nclients, openClients, probed, probeTime, db, dsn, handle,
              calls, fatalMsg, cache>>

prepVars == <<setups, ppc, unit, stmt, applied, pending, sent, failed, prepErr,
              initialData, remaining>>

\* what PrepDatabase and PrepMemcached have no statement for: everything of the
\* constructor's state but the calls made and the contents of the server
handleVars == <<api, kind, tagArg, runOpts, pc, i, defaultRunOpts, pass, dbName,
                launched, container, actualPort, clock, ctxDeadline, retryStart,
                ready, nclients, openClients, probed, probeTime, db, dsn, handle,
                fatalMsg>>

concVars == <<invs, objs, conts, clients>>

envVars == <<envArg, keyArg, got>>

vars == <<ctorVars, prepVars, concVars, envVars>>

-----------------------------------------------------------------------------
(* Bounds of the model *)

\* longest list of RunOption functions a caller passes
MaxOpts == 2

\* most InitialDBSetup units handed to one PrepDatabase call
MaxUnits == 2

\* most statements in one unit's InitialData
MaxStmts == 2

\* granularity of time: a backoff sleep or a slow probe takes this many seconds
TickSeconds == 15

(* Program constants *)

\* context.WithTimeout(context.Background(), 30*time.Second)
CtxTimeout == 30

\* pool.MaxWait as dockertest.NewPool("") leaves it: Retry defaults it to one minute
PoolMaxWait == 60

-----------------------------------------------------------------------------
(* Character strings *)

MYSQL_ROOT_PASSWORD == <<"M","Y","S","Q","L","_","R","O","O","T","_","P","A","S","S","W","O","R","D">>
MYSQL_DATABASE == <<"M","Y","S","Q","L","_","D","A","T","A","B","A","S","E">>
POSTGRES_PASSWORD == <<"P","O","S","T","G","R","E","S","_","P","A","S","S","W","O","R","D">>
POSTGRES_DB == <<"P","O","S","T","G","R","E","S","_","D","B">>
secret == <<"s","e","c","r","e","t">>
test == <<"t","e","s","t">>
custom_test == <<"c","u","s","t","o","m","_","t","e","s","t">>
hostPort == <<"l","o","c","a","l","h","o","s","t",":","3","2","7","6","8">>

\* "KEY=value"
EnvEntry(key, value) == key \o <<"=">> \o value

Max(a, b) == IF a >= b THEN a ELSE b

-----------------------------------------------------------------------------
(* getEnvValue *)

RECURSIVE getEnvValueFrom(_, _, _)
getEnvValueFrom(env, prefix, n) ==
    IF n > Len(env) THEN <<>>
    ELSE LET v == env[n] IN
         IF Len(v) >= Len(prefix) /\ SubSeq(v, 1, Len(prefix)) = prefix
         THEN SubSeq(v, Len(prefix) + 1, Len(v))
         ELSE getEnvValueFrom(env, prefix, n + 1)

\* variant: the range runs over the list from its end, so the last entry wins
getEnvValueLast(env, key) ==
    getEnvValueFrom([n \in 1..Len(env) |-> env[Len(env) + 1 - n]], key \o <<"=">>, 1)

\* variant: the prefix looked for is the key without the "="
getEnvValueKeyPrefix(env, key) == getEnvValueFrom(env, key, 1)

\* variant: a key that is not in the list is given the default value
getEnvValueOrDefault(env, key) ==
    IF \E n \in 1..Len(env) :
           Len(env[n]) >= Len(key) + 1 /\ SubSeq(env[n], 1, Len(key) + 1) = key \o <<"=">>
    THEN getEnvValueFrom(env, key \o <<"=">>, 1)
    ELSE secret

getEnvValue(env, key) == getEnvValueFrom(env, key \o <<"=">>, 1)

-----------------------------------------------------------------------------
(* Default run options and RunOption functions *)

Kinds == {"mysql", "postgres", "memcached"}
Relational == {"mysql", "postgres"}

defaultImage(k) ==
    CASE k = "mysql" -> "mysql" [] k = "postgres" -> "postgres" [] OTHER -> "memcached"

defaultTag(k) ==
    CASE k = "mysql" -> "8.0" [] k = "postgres" -> "13" [] OTHER -> "1.6"

PasswordKey(k) == IF k = "mysql" THEN MYSQL_ROOT_PASSWORD ELSE POSTGRES_PASSWORD
DatabaseKey(k) == IF k = "mysql" THEN MYSQL_DATABASE ELSE POSTGRES_DB

defaultEnv(k) ==
    IF k \in Relational
    THEN << EnvEntry(PasswordKey(k), secret), EnvEntry(DatabaseKey(k), test) >>
    ELSE << >>

\* the RunOptions literal each constructor starts from
DefaultRunOptions(a, k, tag) ==
    [ Repository |-> defaultImage(k),
      Tag        |-> IF a = "positional" THEN tag ELSE defaultTag(k),
      Env        |-> defaultEnv(k) ]

(* A RunOption is a function that mutates the RunOptions it is handed.  It  *)
(* is represented by what it does to each field: <<"keep">>, <<"set", v>>   *)
(* or, for Env, <<"append", entry>>.                                        *)
Keep == <<"keep">>
SetTo(v) == <<"set", v>>
AppendEntry(e) == <<"append", e>>

\* opts.Tag = "1.5"  (customTag of the tests)
customTag == [repo |-> Keep, tag |-> SetTo("1.5"), env |-> Keep]
\* opts.Tag = <the kind's default tag>
restoreTag(k) == [repo |-> Keep, tag |-> SetTo(defaultTag(k)), env |-> Keep]
\* opts.Repository = "custom"; opts.Tag = "1.5"
customImage == [repo |-> SetTo("custom"), tag |-> SetTo("1.5"), env |-> Keep]
\* opts.Env = []string{"<PASSWORD>=secret", "<DATABASE>=custom_test"}  (customEnv of the tests)
customEnv(k) ==
    [repo |-> Keep, tag |-> Keep,
     env |-> SetTo(<< EnvEntry(PasswordKey(k), secret), EnvEntry(DatabaseKey(k), custom_test) >>)]
\* opts.Env = append(opts.Env, "<DATABASE>=custom_test")
appendEnv(k) ==
    [repo |-> Keep, tag |-> Keep, env |-> AppendEntry(EnvEntry(DatabaseKey(k), custom_test))]
\* opts.Env = nil
clearEnv == [repo |-> Keep, tag |-> Keep, env |-> SetTo(<< >>)]

RunOptionChoices(k) ==
    IF k \in Relational
    THEN {customTag, restoreTag(k), customImage, customEnv(k), appendEnv(k), clearEnv}
    ELSE {customTag, restoreTag(k), customImage}

\* opt(defaultRunOpts): the mutation a RunOption makes
ApplyOpt(opt, ro) ==
    [ Repository |-> IF opt.repo[1] = "set" THEN opt.repo[2] ELSE ro.Repository,
      Tag        |-> IF opt.tag[1] = "set" THEN opt.tag[2] ELSE ro.Tag,
      Env        |-> CASE opt.env[1] = "set" -> opt.env[2]
                       [] opt.env[1] = "append" -> Append(ro.Env, opt.env[2])
                       [] OTHER -> ro.Env ]

-----------------------------------------------------------------------------
(* DSN closures *)

\* fmt.Sprintf("root:%s@tcp(%s)/%s?parseTime=true", pass, actualPort, db)
mysqlDSN(p, port, d) ==
    <<"r","o","o","t",":">> \o p \o <<"@","t","c","p","(">> \o port \o <<")","/">> \o d
        \o <<"?","p","a","r","s","e","T","i","m","e","=","t","r","u","e">>

\* fmt.Sprintf("postgres://postgres:%s@%s/%s?sslmode=disable", pass, actualPort, db)
postgresDSN(p, port, d) ==
    <<"p","o","s","t","g","r","e","s",":","/","/","p","o","s","t","g","r","e","s",":">> \o p
        \o <<"@">> \o port \o <<"/">> \o d
        \o <<"?","s","s","l","m","o","d","e","=","d","i","s","a","b","l","e">>

\* the closure NewMySQLWithOptions / NewPostgresWithOptions hands to NewDockerDB
optionsDSN(k, p, d, port) ==
    IF k = "mysql" THEN mysqlDSN(p, port, d) ELSE postgresDSN(p, port, d)

\* the closure the positional NewMySQL / NewPostgres hand to NewDockerDB:
\* "root:secret@tcp(%s)/test?parseTime=true", "postgres://postgres:secret@%s/test?sslmode=disable"
positionalDSN(k, port) ==
    IF k = "mysql" THEN mysqlDSN(secret, port, test) ELSE postgresDSN(secret, port, test)

dsnFunc(a, k, p, d, port) ==
    IF a # "positional" THEN optionsDSN(k, p, d, port) ELSE positionalDSN(k, port)

-----------------------------------------------------------------------------
(* Initial states: one constructor call about to start *)

NoSpec == [Repository |-> "", Tag |-> "", Env |-> << >>]

SeqsUpTo(S, n) == UNION { [1..m -> S] : m \in 0..n }

\* tags a caller of the positional constructors passes
TagArgs(k) == {defaultTag(k), "latest"}

\* PrepDatabase is not being called
PrepIdle ==
    /\ setups = << >>
    /\ ppc = "idle"
    /\ unit = 1
    /\ stmt = 1
    /\ applied = << >>
    /\ pending = << >>
    /\ sent = << >>
    /\ failed = << >>
    /\ prepErr = ""
    /\ initialData = << >>
    /\ remaining = {}

\* no constructor calls side by side, no lookup on its own
ConcIdle ==
    /\ invs = << >>
    /\ objs = << >>
    /\ conts = << >>
    /\ clients = << >>
    /\ envArg = << >>
    /\ keyArg = << >>
    /\ got = <<"none">>

Init ==
    /\ api \in {"options", "default", "positional"}
    /\ kind \in (IF api = "positional" THEN Relational ELSE Kinds)
    /\ tagArg \in (IF api = "positional" THEN TagArgs(kind) ELSE {""})
    /\ runOpts \in (IF api = "default" THEN {<< >>}
                    ELSE SeqsUpTo(RunOptionChoices(kind), MaxOpts))
    /\ pc = (IF api = "default" THEN "delegate" ELSE "applyOpts")
    /\ i = 1
    /\ defaultRunOpts = DefaultRunOptions(api, kind, tagArg)
    /\ pass = << >>
    /\ dbName = << >>
    /\ launched = NoSpec
    /\ container = "none"
    /\ actualPort = << >>
    /\ clock = 0
    /\ ctxDeadline = 0
    /\ retryStart = 0
    /\ ready = FALSE
    /\ nclients = 0
    /\ openClients = {}
    /\ probed = {}
    /\ probeTime = -1
    /\ db = 0
    /\ dsn = << >>
    /\ handle = 0
    /\ calls = << >>
    /\ fatalMsg = ""
    /\ cache = {}
    /\ PrepIdle
    /\ ConcIdle

-----------------------------------------------------------------------------
(* Building the run options *)

\* variant: the options are applied last to first
NextOptReversed(opts, n) == opts[Len(opts) + 1 - n]

\* variant: the default constructor hands a tag override on
DelegatedOptsCustomTag == << customTag >>

\* the runOpts argument of NewMySQL(t), NewPostgres(t), NewMemcached(t) to the
\* options constructor: nil
DelegatedOpts == << >>

\* return NewMySQLWithOptions(t, nil) and its like: the call of the options constructor
Delegate ==
    /\ UNCHANGED <<prepVars, concVars, envVars>>
    /\ pc = "delegate"
    /\ runOpts' = DelegatedOpts
    /\ pc' = "applyOpts"
    /\ UNCHANGED <<api, kind, tagArg, i, defaultRunOpts, pass, dbName, launched, container,
                   actualPort, clock, ctxDeadline, retryStart, ready, nclients,
                   openClients, probed, probeTime, db, dsn, handle, calls, fatalMsg, cache>>

\* which RunOption the loop `for _, opt := range runOpts` applies at its n-th turn
NextOpt(opts, n) == opts[n]

\* for _, opt := range runOpts { opt(defaultRunOpts) }: one turn of the loop
ApplyRunOption ==
    /\ UNCHANGED <<prepVars, concVars, envVars>>
    /\ pc = "applyOpts"
    /\ i <= Len(runOpts)
    /\ defaultRunOpts' = ApplyOpt(NextOpt(runOpts, i), defaultRunOpts)
    /\ i' = i + 1
    /\ UNCHANGED <<api, kind, tagArg, runOpts, pc, pass, dbName, launched, container,
                   actualPort, clock, ctxDeadline, retryStart, ready, nclients,
                   openClients, probed, probeTime, db, dsn, handle, calls, fatalMsg, cache>>

\* pass := getEnvValue(defaultRunOpts.Env, ...); db := getEnvValue(defaultRunOpts.Env, ...)
\* (options constructors of the relational kinds only), then the call of NewDockerDB
CaptureDSN ==
    /\ UNCHANGED <<prepVars, concVars, envVars>>
    /\ pc = "applyOpts"
    /\ i > Len(runOpts)
    /\ IF api # "positional" /\ kind \in Relational
       THEN /\ pass' = getEnvValue(defaultRunOpts.Env, PasswordKey(kind))
            /\ dbName' = getEnvValue(defaultRunOpts.Env, DatabaseKey(kind))
       ELSE UNCHANGED <<pass, dbName>>
    /\ pc' = "newPool"
    /\ UNCHANGED <<api, kind, tagArg, runOpts, i, defaultRunOpts, launched, container,
                   actualPort, clock, ctxDeadline, retryStart, ready, nclients,
                   openClients, probed, probeTime, db, dsn, handle, calls, fatalMsg, cache>>

-----------------------------------------------------------------------------
(* NewDockerDB / NewMemcachedWithOptions: launch *)

\* if err != nil { t.Fatalf("failed to connect to docker: %s", err) }
DockerAbort(cs) == Append(cs, "Fatalf")

\* variant: the launch-failure branch purges before reporting
StartAbortWithPurge(cs) == cs \o <<"Purge", "Fatalf">>

\* if err != nil { t.Fatalf("failed to start %s container: %s", driverName, err) }
StartAbort(cs) == Append(cs, "Fatalf")

\* variant: the missing-port branch reports the error without purging
NoPortAbortNoPurge(cs) == Append(cs, "Fatalf")

\* if actualPort == "" { _ = pool.Purge(resource); t.Fatalf("no host port was assigned ...") }
NoPortAbort(cs) == cs \o <<"Purge", "Fatalf">>

\* if err = pool.Retry(...); err != nil { _ = pool.Purge(resource); t.Fatalf("failed to connect to ...") }
ConnectAbort(cs) == cs \o <<"Purge", "Fatalf">>

\* what a call of pool.Purge leaves of the container: removed, or as it was when Purge fails
AfterPurge(c, purgeErr) == IF purgeErr THEN c ELSE "purged"

\* pool, err := dockertest.NewPool("")
NewPool ==
    /\ UNCHANGED <<prepVars, concVars, envVars>>
    /\ pc = "newPool"
    /\ \E err \in BOOLEAN :
         IF err
         THEN /\ calls' = DockerAbort(calls)
              /\ fatalMsg' = "failed to connect to docker"
              /\ pc' = "fatal"
         ELSE /\ pc' = "run"
              /\ UNCHANGED <<calls, fatalMsg>>
    /\ UNCHANGED <<api, kind, tagArg, runOpts, i, defaultRunOpts, pass, dbName, launched,
                   container, actualPort, clock, ctxDeadline, retryStart, ready, nclients,
                   openClients, probed, probeTime, db, dsn, handle, cache>>

\* resource, err := pool.RunWithOptions(runOpts, hostOpts...)
RunWithOptions ==
    /\ UNCHANGED <<prepVars, concVars, envVars>>
    /\ pc = "run"
    /\ \E err \in BOOLEAN :
         IF err
         THEN /\ calls' = StartAbort(calls)
              /\ fatalMsg' = "failed to start container"
              /\ pc' = "fatal"
              /\ UNCHANGED <<launched, container>>
         ELSE /\ launched' = defaultRunOpts
              /\ container' = "running"
              /\ pc' = "port"
              /\ UNCHANGED <<calls, fatalMsg>>
    /\ UNCHANGED <<api, kind, tagArg, runOpts, i, defaultRunOpts, pass, dbName,
                   actualPort, clock, ctxDeadline, retryStart, ready, nclients,
                   openClients, probed, probeTime, db, dsn, handle, cache>>

\* actualPort := resource.GetHostPort(containerPort)
GetHostPort ==
    /\ UNCHANGED <<prepVars, concVars, envVars>>
    /\ pc = "port"
    /\ \E port \in {<< >>, hostPort}, purgeErr \in BOOLEAN :
         /\ actualPort' = port
         /\ IF port = << >>
            THEN /\ calls' = NoPortAbort(calls)
                 /\ container' = IF "Purge" \in {calls'[n] : n \in 1..Len(calls')}
                                 THEN AfterPurge(container, purgeErr) ELSE container
                 /\ fatalMsg' = "no host port was assigned"
                 /\ pc' = "fatal"
            ELSE /\ purgeErr = FALSE
                 /\ pc' = "retry"
                 /\ UNCHANGED <<calls, container, fatalMsg>>
    /\ UNCHANGED <<api, kind, tagArg, runOpts, i, defaultRunOpts, pass, dbName, launched,
                   clock, ctxDeadline, retryStart, ready, nclients,
                   openClients, probed, probeTime, db, dsn, handle, cache>>

\* the service inside the running container finishes booting (environment)
ServiceReady ==
    /\ UNCHANGED <<prepVars, concVars, envVars>>
    /\ container = "running"
    /\ ~ready
    /\ pc \in {"retry", "op", "ping", "get", "backoff"}
    /\ ready' = TRUE
    /\ UNCHANGED <<api, kind, tagArg, runOpts, pc, i, defaultRunOpts, pass, dbName, launched,
                   container, actualPort, clock, ctxDeadline, retryStart, nclients,
                   openClients, probed, probeTime, db, dsn, handle, calls, fatalMsg, cache>>

-----------------------------------------------------------------------------
(* The readiness wait: pool.Retry around the dial-and-probe closure *)

\* ctx, cancel := context.WithTimeout(context.Background(), 30*time.Second); pool.Retry(...)
\* (the memcached constructor makes no context: its ctxDeadline is never read)
EnterRetry ==
    /\ UNCHANGED <<prepVars, concVars, envVars>>
    /\ pc = "retry"
    /\ ctxDeadline' = IF kind \in Relational THEN clock + CtxTimeout ELSE ctxDeadline
    /\ retryStart' = clock
    /\ pc' = "op"
    /\ UNCHANGED <<api, kind, tagArg, runOpts, i, defaultRunOpts, pass, dbName, launched,
                   container, actualPort, clock, ready, nclients,
                   openClients, probed, probeTime, db, dsn, handle, calls, fatalMsg, cache>>

\* variant: the closure declares its own variable (`db, err := sql.Open(...)`), so the
\* variable the constructor returns keeps its old value
ShadowDB(outer, opened) == outer

\* `db, err = sql.Open(...)` and `client = memcache.New(...)` assign the variable declared
\* outside the closure, the one the constructor returns
AssignDB(outer, opened) == opened

\* dsn := dsnFunc(actualPort); db, err = sql.Open(driverName, dsn); if err != nil { return err }
SqlOpen ==
    /\ UNCHANGED <<prepVars, concVars, envVars>>
    /\ pc = "op"
    /\ kind \in Relational
    /\ dsn' = dsnFunc(api, kind, pass, dbName, actualPort)
    /\ \E err \in BOOLEAN :
         IF err
         THEN /\ db' = 0
              /\ pc' = "backoff"
              /\ UNCHANGED <<nclients, openClients>>
         ELSE /\ nclients' = nclients + 1
              /\ db' = AssignDB(db, nclients + 1)
              /\ openClients' = openClients \cup {nclients + 1}
              /\ pc' = "ping"
    /\ UNCHANGED <<api, kind, tagArg, runOpts, i, defaultRunOpts, pass, dbName, launched,
                   container, actualPort, clock, ctxDeadline, retryStart, ready,
                   probed, probeTime, handle, calls, fatalMsg, cache>>

\* variant: a ping that ends at the very instant of the deadline still succeeds
PingContextDeadlineInclusive(done, deadline, isReady, answer) ==
    done <= deadline /\ isReady /\ answer

\* variant: the ping is made without the deadline context (db.Ping())
PingWithoutContextOK(done, deadline, isReady, answer) == isReady /\ answer

\* db.PingContext(ctx) answers nil only if the reply comes before ctx is done, from a
\* service that accepts connections
PingContextOK(done, deadline, isReady, answer) == done < deadline /\ isReady /\ answer

\* return db.PingContext(ctx)
PingContext ==
    /\ UNCHANGED <<prepVars, concVars, envVars>>
    /\ pc = "ping"
    /\ \E d \in {0, TickSeconds}, answer \in BOOLEAN :
         LET done == clock + d
             ok   == PingContextOK(done, ctxDeadline, ready, answer)
         IN /\ clock' = IF ok \/ done < ctxDeadline THEN done ELSE Max(clock, ctxDeadline)
            /\ IF ok
               THEN /\ probed' = probed \cup {db}
                    /\ probeTime' = clock'
                    /\ pc' = "return"
               ELSE /\ pc' = "backoff"
                    /\ UNCHANGED <<probed, probeTime>>
    /\ UNCHANGED <<api, kind, tagArg, runOpts, i, defaultRunOpts, pass, dbName, launched,
                   container, actualPort, ctxDeadline, retryStart, ready, nclients,
                   openClients, db, dsn, handle, calls, fatalMsg, cache>>

\* testKey := "test_connection"; testValue := []byte("test_value")
testItem == <<"test_connection", "test_value">>

\* client = memcache.New(actualPort); err := client.Set(&memcache.Item{...}); if err != nil { return err }
MemcachedSet ==
    /\ UNCHANGED <<prepVars, concVars, envVars>>
    /\ pc = "op"
    /\ kind = "memcached"
    /\ nclients' = nclients + 1
    /\ db' = AssignDB(db, nclients + 1)
    /\ openClients' = openClients \cup {nclients + 1}
    /\ \E d \in {0, TickSeconds}, answer \in BOOLEAN :
         /\ clock' = clock + d
         /\ IF ready /\ answer
            THEN /\ cache' = {kv \in cache : kv[1] # testItem[1]} \cup {testItem}
                 /\ pc' = "get"
            ELSE /\ pc' = "backoff"
                 /\ UNCHANGED cache
    /\ UNCHANGED <<api, kind, tagArg, runOpts, i, defaultRunOpts, pass, dbName, launched,
                   container, actualPort, ctxDeadline, retryStart, ready,
                   probed, probeTime, dsn, handle, calls, fatalMsg>>

\* variant: the probe deletes its key once the get has answered
DeleteProbeKey(c) == {kv \in c : kv[1] # "test_connection"}

\* what the closure does to the cache after client.Get(testKey) answered: nothing
AfterProbe(c) == c

\* time.Sleep(100 * time.Millisecond); _, err = client.Get(testKey); return err
MemcachedGet ==
    /\ UNCHANGED <<prepVars, concVars, envVars>>
    /\ pc = "get"
    /\ \E answer \in BOOLEAN :
         IF ready /\ answer /\ (\E kv \in cache : kv[1] = testItem[1])
         THEN /\ probed' = probed \cup {db}
              /\ probeTime' = clock
              /\ cache' = AfterProbe(cache)
              /\ pc' = "return"
         ELSE /\ pc' = "backoff"
              /\ UNCHANGED <<probed, probeTime, cache>>
    /\ UNCHANGED <<api, kind, tagArg, runOpts, i, defaultRunOpts, pass, dbName, launched,
                   container, actualPort, clock, ctxDeadline, retryStart, ready, nclients,
                   openClients, db, dsn, handle, calls, fatalMsg>>

\* variant: pool.Retry has no budget
RetryNeverGivesUp(elapsed) == FALSE

\* pool.Retry stops retrying once its own budget, pool.MaxWait, has elapsed; the
\* context of the caller is not among its arguments
RetryGivesUp(elapsed) == elapsed >= PoolMaxWait

\* the closure returned an error: pool.Retry sleeps and calls it again, or gives up and
\* returns the error, upon which the constructor purges and calls t.Fatalf
Backoff ==
    /\ UNCHANGED <<prepVars, concVars, envVars>>
    /\ pc = "backoff"
    /\ IF RetryGivesUp(clock - retryStart)
       THEN /\ \E purgeErr \in BOOLEAN :
                 /\ calls' = ConnectAbort(calls)
                 /\ container' = IF "Purge" \in {calls'[n] : n \in 1..Len(calls')}
                                 THEN AfterPurge(container, purgeErr) ELSE container
            /\ fatalMsg' = "failed to connect"
            /\ pc' = "fatal"
            /\ UNCHANGED clock
       ELSE /\ clock' = clock + TickSeconds
            /\ pc' = "op"
            /\ UNCHANGED <<calls, container, fatalMsg>>
    /\ UNCHANGED <<api, kind, tagArg, runOpts, i, defaultRunOpts, pass, dbName, launched,
                   actualPort, ctxDeadline, retryStart, ready, nclients,
                   openClients, probed, probeTime, db, dsn, handle, cache>>

\* return db, cleanup  /  return client, cleanup
Return ==
    /\ UNCHANGED <<prepVars, concVars, envVars>>
    /\ pc = "return"
    /\ handle' = db
    /\ pc' = "returned"
    /\ UNCHANGED <<api, kind, tagArg, runOpts, i, defaultRunOpts, pass, dbName, launched,
                   container, actualPort, clock, ctxDeadline, retryStart, ready, nclients,
                   openClients, probed, probeTime, db, dsn, calls, fatalMsg, cache>>

-----------------------------------------------------------------------------
(* The cleanup closures *)

\* variant: the cleanup returns when db.Close() fails
dbCleanupEarlyReturn(closeErr, purgeErr) ==
    IF closeErr THEN <<"Close", "Logf">>
    ELSE <<"Close", "Purge">> \o (IF purgeErr THEN <<"Logf">> ELSE << >>)

\* cleanup of NewDockerDB:
\*   if err := db.Close(); err != nil { t.Logf(...) }
\*   if err := pool.Purge(resource); err != nil { t.Logf(...) }
dbCleanup(closeErr, purgeErr) ==
    <<"Close">> \o (IF closeErr THEN <<"Logf">> ELSE << >>)
        \o <<"Purge">> \o (IF purgeErr THEN <<"Logf">> ELSE << >>)

\* variant: the memcached cleanup forgets the purge
memcachedCleanupNoPurge(purgeErr) == << >>

\* cleanup of NewMemcachedWithOptions:
\*   if err := pool.Purge(resource); err != nil { t.Logf(...) }
memcachedCleanup(purgeErr) ==
    <<"Purge">> \o (IF purgeErr THEN <<"Logf">> ELSE << >>)

\* the caller runs the cleanup function it was given
Cleanup ==
    /\ UNCHANGED <<prepVars, concVars, envVars>>
    /\ pc = "returned"
    /\ ppc \in {"idle", "returned"}
    /\ \E closeErr \in (IF kind \in Relational THEN BOOLEAN ELSE {FALSE}), purgeErr \in BOOLEAN :
         LET cs == IF kind \in Relational
                   THEN dbCleanup(closeErr, purgeErr)
                   ELSE memcachedCleanup(purgeErr)
             has(c) == c \in {cs[n] : n \in 1..Len(cs)}
         IN /\ calls' = calls \o cs
            /\ openClients' = IF has("Close") THEN openClients \ {db} ELSE openClients
            /\ container' = IF has("Purge") THEN AfterPurge(container, purgeErr) ELSE container
    /\ pc' = "done"
    /\ UNCHANGED <<api, kind, tagArg, runOpts, i, defaultRunOpts, pass, dbName, launched,
                   actualPort, clock, ctxDeadline, retryStart, ready, nclients,
                   probed, probeTime, db, dsn, handle, fatalMsg, cache>>

-----------------------------------------------------------------------------

Next ==
    \/ Delegate
    \/ ApplyRunOption
    \/ CaptureDSN
    \/ NewPool
    \/ RunWithOptions
    \/ GetHostPort
    \/ ServiceReady
    \/ EnterRetry
    \/ SqlOpen
    \/ PingContext
    \/ MemcachedSet
    \/ MemcachedGet
    \/ Backoff
    \/ Return
    \/ Cleanup

Spec == Init /\ [][Next]_vars

\* the statements of a constructor call: the goroutine of the test runs them one
\* after the other, and each library call in them returns
ConstructorStep ==
    \/ Delegate
    \/ ApplyRunOption
    \/ CaptureDSN
    \/ NewPool
    \/ RunWithOptions
    \/ GetHostPort
    \/ EnterRetry
    \/ SqlOpen
    \/ PingContext
    \/ MemcachedSet
    \/ MemcachedGet
    \/ Backoff
    \/ Return

\* a constructor call that is scheduled: its next statement is taken in the end
FairSpec == Spec /\ WF_vars(ConstructorStep)

-----------------------------------------------------------------------------
(* PrepDatabase *)

\* type InitialDBSetup struct { SchemaSQL string; InitialData []string }
InitialDBSetup ==
    [ SchemaSQL : {"", "CREATE TABLE"},
      InitialData : SeqsUpTo({"INSERT"}, MaxStmts) ]

\* the state a successful NewMySQL(t) leaves: one open, probed client on a running container
AfterNewMySQL ==
    /\ api = "default"
    /\ kind = "mysql"
    /\ tagArg = ""
    /\ runOpts = << >>
    /\ pc = "returned"
    /\ i = 1
    /\ defaultRunOpts = DefaultRunOptions("default", "mysql", "")
    /\ pass = secret
    /\ dbName = test
    /\ launched = DefaultRunOptions("default", "mysql", "")
    /\ container = "running"
    /\ actualPort = hostPort
    /\ clock = 0
    /\ ctxDeadline = CtxTimeout
    /\ retryStart = 0
    /\ ready = TRUE
    /\ nclients = 1
    /\ openClients = {1}
    /\ probed = {1}
    /\ probeTime = 0
    /\ db = 1
    /\ dsn = mysqlDSN(secret, hostPort, test)
    /\ handle = 1
    /\ calls = << >>
    /\ fatalMsg = ""
    /\ cache = {}

\* PrepDatabase(t, db, setups...) is entered
PrepInit ==
    /\ AfterNewMySQL
    /\ setups \in SeqsUpTo(InitialDBSetup, MaxUnits)
    /\ ppc = "schema"
    /\ unit = 1
    /\ stmt = 1
    /\ applied = << >>
    /\ pending = << >>
    /\ sent = << >>
    /\ failed = << >>
    /\ prepErr = ""
    /\ initialData = << >>
    /\ remaining = {}
    /\ ConcIdle

\* variant: an error branch of the seeding ends the test itself
FatalOnError(cs) == Append(cs, "Fatalf")

\* variant: an error branch of the seeding closes the handle
CloseOnError(cs) == Append(cs, "Close")

\* what an error branch of PrepDatabase or PrepMemcached calls besides building
\* the error it returns: nothing
ReturnError(cs) == cs

\* PrepDatabase and PrepMemcached use the handle only
SeedingFrame ==
    /\ calls' = IF prepErr' \notin {"", "nil"} THEN ReturnError(calls) ELSE calls
    /\ UNCHANGED <<handleVars, concVars, envVars>>

\* variant: the failure branch calls tx.Commit() instead of tx.Rollback()
CommitOnError(app, pend) == app \o pend

\* variant: tx.Commit() reports success and keeps nothing
CommitLosesTx(app, pend) == app

\* variant: the rollback undoes everything the call has done
RollbackAll(app, pend) == << >>

\* what is visible of the transaction's statements after tx.Rollback(): nothing
RollbackTx(app, pend) == app

\* what is visible after a successful tx.Commit(): the transaction's statements too
CommitTx(app, pend) == app \o pend

\* where PrepDatabase goes after a statement of InitialData fails: it returns
AfterExecError(n) == "returned"

\* variant: the error of db.Exec(setup.SchemaSQL) is ignored and the unit goes on
IgnoreSchemaError(n) == "data"

\* where PrepDatabase goes after db.Exec(setup.SchemaSQL) fails: it returns
AfterSchemaError(n) == "returned"

\* variant: the error of tx.Commit() is ignored and the loop goes to the next unit
IgnoreCommitError(n) == "schema"

\* where PrepDatabase goes after tx.Commit() fails: it returns
AfterCommitError(n) == "returned"

\* variant: the range over setup.InitialData steps over every other statement
SkipStmt(n) == n + 2

\* the statement the range over setup.InitialData takes after statement n
NextStmt(n) == n + 1

\* loop head, and: if setup.SchemaSQL != "" { if _, err := db.Exec(setup.SchemaSQL); err != nil { return ... } }
ExecSchema ==
    /\ ppc = "schema"
    /\ IF unit > Len(setups)
       THEN /\ ppc' = "returned"
            /\ prepErr' = "nil"
            /\ UNCHANGED <<applied, sent, failed>>
       ELSE IF setups[unit].SchemaSQL = ""
       THEN /\ ppc' = "data"
            /\ UNCHANGED <<applied, sent, failed, prepErr>>
       ELSE \E err \in BOOLEAN :
              /\ sent' = Append(sent, <<"Exec", unit, 0>>)
              /\ IF err
                 THEN /\ ppc' = AfterSchemaError(unit)
                      /\ prepErr' = "failed to execute schema SQL"
                      /\ failed' = <<"Exec", unit, 0>>
                      /\ UNCHANGED applied
                 ELSE /\ applied' = Append(applied, <<unit, 0>>)
                      /\ ppc' = "data"
                      /\ UNCHANGED <<failed, prepErr>>
    /\ UNCHANGED <<setups, unit, stmt, pending>>
    /\ UNCHANGED <<cache, initialData, remaining>>
    /\ SeedingFrame

\* if len(setup.InitialData) > 0 { tx, err := db.Begin(); if err != nil { return ... } ... }
Begin ==
    /\ ppc = "data"
    /\ IF Len(setups[unit].InitialData) = 0
       THEN /\ unit' = unit + 1
            /\ ppc' = "schema"
            /\ UNCHANGED <<stmt, sent, failed, prepErr>>
       ELSE \E err \in BOOLEAN :
              /\ sent' = Append(sent, <<"Begin", unit, 0>>)
              /\ IF err
                 THEN /\ ppc' = "returned"
                      /\ prepErr' = "failed to begin transaction"
                      /\ failed' = <<"Begin", unit, 0>>
                      /\ UNCHANGED <<unit, stmt>>
                 ELSE /\ stmt' = 1
                      /\ ppc' = "exec"
                      /\ UNCHANGED <<unit, failed, prepErr>>
    /\ UNCHANGED <<setups, applied, pending>>
    /\ UNCHANGED <<cache, initialData, remaining>>
    /\ SeedingFrame

\* for _, stmt := range setup.InitialData {
\*     if _, err := tx.Exec(stmt); err != nil { _ = tx.Rollback(); return ... } }
TxExec ==
    /\ ppc = "exec"
    /\ stmt <= Len(setups[unit].InitialData)
    /\ \E err \in BOOLEAN :
         IF err
         THEN /\ sent' = sent \o << <<"TxExec", unit, stmt>>, <<"Rollback", unit, 0>> >>
              /\ applied' = RollbackTx(applied, pending)
              /\ pending' = << >>
              /\ failed' = <<"TxExec", unit, stmt>>
              /\ prepErr' = "failed to execute initial data SQL"
              /\ ppc' = AfterExecError(unit)
              /\ unit' = IF ppc' = "returned" THEN unit ELSE unit + 1
              /\ UNCHANGED stmt
         ELSE /\ sent' = Append(sent, <<"TxExec", unit, stmt>>)
              /\ pending' = Append(pending, <<unit, stmt>>)
              /\ stmt' = NextStmt(stmt)
              /\ UNCHANGED <<applied, failed, prepErr, ppc, unit>>
    /\ UNCHANGED setups
    /\ UNCHANGED <<cache, initialData, remaining>>
    /\ SeedingFrame

\* if err := tx.Commit(); err != nil { return ... }
Commit ==
    /\ ppc = "exec"
    /\ stmt > Len(setups[unit].InitialData)
    /\ sent' = Append(sent, <<"Commit", unit, 0>>)
    /\ pending' = << >>
    /\ \E err \in BOOLEAN :
         IF err
         THEN /\ ppc' = AfterCommitError(unit)
              /\ prepErr' = "failed to commit transaction"
              /\ failed' = <<"Commit", unit, 0>>
              /\ unit' = IF ppc' = "returned" THEN unit ELSE unit + 1
              /\ UNCHANGED applied
         ELSE /\ applied' = CommitTx(applied, pending)
              /\ unit' = unit + 1
              /\ ppc' = "schema"
              /\ UNCHANGED <<failed, prepErr>>
    /\ UNCHANGED <<setups, stmt>>
    /\ UNCHANGED <<cache, initialData, remaining>>
    /\ SeedingFrame

PrepNext ==
    \/ ExecSchema
    \/ Begin
    \/ TxExec
    \/ Commit

PrepSpec == PrepInit /\ [][PrepNext]_vars

-----------------------------------------------------------------------------
(* PrepMemcached *)

\* keys and values a caller seeds the cache with; the probe's key is among them
Keys == {"user:1", "user:2", "test_connection"}
Values == {"Alice", "Bob"}

\* map[string]string values handed to PrepMemcached
InitialDataChoices == UNION { [K -> Values] : K \in SUBSET Keys }

\* client.Get(key): the stored value, or memcache.ErrCacheMiss
Get(c, key) ==
    IF \E kv \in c : kv[1] = key
    THEN (CHOOSE kv \in c : kv[1] = key)[2]
    ELSE "ErrCacheMiss"

\* the state a successful NewMemcached(t) leaves: a client on a running
\* container whose cache holds the probe's item
AfterNewMemcached ==
    /\ api = "default"
    /\ kind = "memcached"
    /\ tagArg = ""
    /\ runOpts = << >>
    /\ pc = "returned"
    /\ i = 1
    /\ defaultRunOpts = DefaultRunOptions("default", "memcached", "")
    /\ pass = << >>
    /\ dbName = << >>
    /\ launched = DefaultRunOptions("default", "memcached", "")
    /\ container = "running"
    /\ actualPort = hostPort
    /\ clock = 0
    /\ ctxDeadline = 0
    /\ retryStart = 0
    /\ ready = TRUE
    /\ nclients = 1
    /\ openClients = {1}
    /\ probed = {1}
    /\ probeTime = 0
    /\ db = 1
    /\ dsn = << >>
    /\ handle = 1
    /\ calls = << >>
    /\ fatalMsg = ""
    /\ cache = {testItem}

\* PrepMemcached(t, client, initialData) is entered
MemInit ==
    /\ AfterNewMemcached
    /\ initialData \in InitialDataChoices
    /\ remaining = DOMAIN initialData
    /\ ppc = "set"
    /\ setups = << >>
    /\ unit = 1
    /\ stmt = 1
    /\ applied = << >>
    /\ pending = << >>
    /\ sent = << >>
    /\ failed = << >>
    /\ prepErr = ""
    /\ ConcIdle

\* variant: the error of client.Set is ignored and the range goes on
IgnoreSetError(k) == "set"

\* where PrepMemcached goes after client.Set fails: it returns
AfterSetError(k) == "returned"

\* variant: the item is built with the key as its value
StoreKeyAsValue(c, key, value) == {kv \in c : kv[1] # key} \cup {<<key, key>>}

\* the cache after client.Set(&memcache.Item{Key: key, Value: []byte(value)}) succeeded
StoreItem(c, key, value) == {kv \in c : kv[1] # key} \cup {<<key, value>>}

\* for key, value := range initialData {
\*     err := client.Set(...); if err != nil { return fmt.Errorf("failed to set key ...") } }
\* the range over a map takes the keys in no specified order; a Set that
\* reported an error may or may not have reached the server
PrepMemcachedSet ==
    /\ ppc = "set"
    /\ \E key \in remaining, err \in BOOLEAN :
         /\ sent' = Append(sent, <<"Set", key, initialData[key]>>)
         /\ remaining' = remaining \ {key}
         /\ IF err
            THEN /\ failed' = <<"Set", key, initialData[key]>>
                 /\ prepErr' = "failed to set key"
                 /\ ppc' = AfterSetError(key)
                 /\ cache' \in {cache, StoreItem(cache, key, initialData[key])}
            ELSE /\ cache' = StoreItem(cache, key, initialData[key])
                 /\ UNCHANGED <<failed, prepErr, ppc>>
    /\ UNCHANGED <<setups, unit, stmt, applied, pending, initialData>>
    /\ SeedingFrame

\* the range is over: return nil
PrepMemcachedReturn ==
    /\ ppc = "set"
    /\ remaining = {}
    /\ ppc' = "returned"
    /\ prepErr' = "nil"
    /\ UNCHANGED <<setups, unit, stmt, applied, pending, sent, failed, cache,
                   initialData, remaining>>
    /\ SeedingFrame

MemNext ==
    \/ PrepMemcachedSet
    \/ PrepMemcachedReturn

-----------------------------------------------------------------------------
(* A test: a constructor call, or, the constructor having returned, a      *)
(* seeding call on the handle; the cleanup runs when the caller is back.   *)

TestInit ==
    \/ Init
    \/ PrepInit
    \/ MemInit

TestNext ==
    \/ Next
    \/ PrepNext
    \/ MemNext

TestSpec == TestInit /\ [][TestNext]_vars

-----------------------------------------------------------------------------
(* Constructor calls side by side (parallel tests).  Each call has its own  *)
(* local variables; the heap of RunOptions structs, the runtime's           *)
(* containers and the client objects are what the calls could share.       *)

\* the calls running side by side
Invocations == {1, 2}

\* most attempts pool.Retry makes for one call before its budget is over
MaxTries == 2

\* longest list of RunOption functions handed to a call that runs beside another
MaxSharedOpts == 1

\* overrides the calls are handed: one writes the tag, one writes Env
SharedChoices(k) == IF k \in Relational THEN {customTag, clearEnv} ELSE {customTag}

\* the arguments and the local variables of one call at its entry
Entry(k, o) ==
    [ kind |-> k, opts |-> o, pc |-> "new", n |-> 1, ro |-> 0, cont |-> 0,
      tries |-> 0, handle |-> 0 ]

Entries == UNION { { Entry(k, o) : o \in SeqsUpTo(SharedChoices(k), MaxSharedOpts) } : k \in Kinds }

\* the one-call variables while calls run side by side
NoSingleCall ==
    /\ api = "options"
    /\ kind = "mysql"
    /\ tagArg = ""
    /\ runOpts = << >>
    /\ pc = "idle"
    /\ i = 1
    /\ defaultRunOpts = NoSpec
    /\ pass = << >>
    /\ dbName = << >>
    /\ launched = NoSpec
    /\ container = "none"
    /\ actualPort = << >>
    /\ clock = 0
    /\ ctxDeadline = 0
    /\ retryStart = 0
    /\ ready = FALSE
    /\ nclients = 0
    /\ openClients = {}
    /\ probed = {}
    /\ probeTime = -1
    /\ db = 0
    /\ dsn = << >>
    /\ handle = 0
    /\ calls = << >>
    /\ fatalMsg = ""
    /\ cache = {}

ConcInit ==
    /\ NoSingleCall
    /\ PrepIdle
    /\ invs \in [Invocations -> Entries]
    /\ objs = << >>
    /\ conts = << >>
    /\ clients = << >>
    /\ envArg = << >>
    /\ keyArg = << >>
    /\ got = <<"none">>

\* variant: the defaults are one package-level struct every call works on
SharedRunOptions(n) == 1

\* defaultRunOpts := &dockertest.RunOptions{...}: the composite literal is a new
\* struct at every call; with n structs allocated its pointer is n + 1
NewRunOptions(n) == n + 1

\* defaultRunOpts := &dockertest.RunOptions{Repository: ..., Tag: ..., Env: []string{...}}
ConcDefaults(c) ==
    /\ invs[c].pc = "new"
    /\ LET p == NewRunOptions(Len(objs))
       IN /\ objs' = IF p > Len(objs)
                     THEN Append(objs, DefaultRunOptions("options", invs[c].kind, ""))
                     ELSE objs
          /\ invs' = [invs EXCEPT ![c].ro = p, ![c].pc = "applyOpts"]
    /\ UNCHANGED <<conts, clients>>

\* for _, opt := range runOpts { opt(defaultRunOpts) }: one turn, on the struct pointed to
ConcApplyRunOption(c) ==
    /\ invs[c].pc = "applyOpts"
    /\ invs[c].n <= Len(invs[c].opts)
    /\ objs' = [objs EXCEPT ![invs[c].ro] = ApplyOpt(NextOpt(invs[c].opts, invs[c].n), @)]
    /\ invs' = [invs EXCEPT ![c].n = @ + 1]
    /\ UNCHANGED <<conts, clients>>

\* pool, err := dockertest.NewPool(""); resource, err := pool.RunWithOptions(runOpts, ...)
\* the runtime starts a new container at every successful run
ConcRunWithOptions(c) ==
    /\ invs[c].pc = "applyOpts"
    /\ invs[c].n > Len(invs[c].opts)
    /\ \E err \in BOOLEAN :
         IF err
         THEN /\ invs' = [invs EXCEPT ![c].pc = "fatal"]
              /\ UNCHANGED conts
         ELSE /\ conts' = Append(conts, [spec |-> objs[invs[c].ro], state |-> "running"])
              /\ invs' = [invs EXCEPT ![c].cont = Len(conts) + 1, ![c].pc = "probe"]
    /\ UNCHANGED <<objs, clients>>

\* one attempt of pool.Retry: sql.Open(driverName, dsnFunc(actualPort)) or
\* memcache.New(actualPort) makes a new client on the call's own endpoint; on
\* success it is returned, when the budget is over the call's resource is purged
ConcProbe(c) ==
    /\ invs[c].pc = "probe"
    /\ clients' = Append(clients, [cont |-> invs[c].cont, open |-> TRUE])
    /\ \E ok \in BOOLEAN :
         IF ok
         THEN /\ invs' = [invs EXCEPT ![c].handle = Len(clients) + 1, ![c].pc = "returned"]
              /\ UNCHANGED conts
         ELSE IF invs[c].tries + 1 >= MaxTries
         THEN /\ conts' = [conts EXCEPT ![invs[c].cont].state = "purged"]
              /\ invs' = [invs EXCEPT ![c].tries = @ + 1, ![c].pc = "fatal"]
         ELSE /\ invs' = [invs EXCEPT ![c].tries = @ + 1]
              /\ UNCHANGED conts
    /\ UNCHANGED objs

\* the cleanup closure of the call: db.Close() (relational kinds), pool.Purge(resource)
ConcCleanup(c) ==
    /\ invs[c].pc = "returned"
    /\ clients' = IF invs[c].kind \in Relational
                  THEN [clients EXCEPT ![invs[c].handle].open = FALSE]
                  ELSE clients
    /\ conts' = [conts EXCEPT ![invs[c].cont].state = "purged"]
    /\ invs' = [invs EXCEPT ![c].pc = "done"]
    /\ UNCHANGED objs

ConcStep(c) ==
    \/ ConcDefaults(c)
    \/ ConcApplyRunOption(c)
    \/ ConcRunWithOptions(c)
    \/ ConcProbe(c)
    \/ ConcCleanup(c)

ConcNext == (\E c \in Invocations : ConcStep(c)) /\ UNCHANGED <<ctorVars, prepVars, envVars>>

ConcSpec == ConcInit /\ [][ConcNext]_vars

-----------------------------------------------------------------------------
(* getEnvValue called on its own, as TestGetEnvValue does *)

\* longest list handed to getEnvValue
MaxEnv == 3

MY_VAR == <<"M","Y","_","V","A","R">>
MY_VARIABLE == <<"M","Y","_","V","A","R","I","A","B","L","E">>
NOT_EXISTENT == <<"N","O","T","_","E","X","I","S","T","E","N","T">>

\* the entries of the lists: two for MY_VAR, one whose name has MY_VAR as a
\* prefix, one that is the bare name without "="
EnvEntries ==
    { EnvEntry(MY_VAR, <<"1","2","3">>), EnvEntry(MY_VAR, <<"7","8","9">>), EnvEntry(MY_VARIABLE, <<"4","5","6">>), MY_VAR }

EnvKeys == {MY_VAR, MY_VARIABLE, NOT_EXISTENT}

EnvInit ==
    /\ NoSingleCall
    /\ PrepIdle
    /\ invs = << >>
    /\ objs = << >>
    /\ conts = << >>
    /\ clients = << >>
    /\ envArg \in SeqsUpTo(EnvEntries, MaxEnv)
    /\ keyArg \in EnvKeys
    /\ got = <<"none">>

\* got := getEnvValue(env, "MY_VAR") and the like
Lookup ==
    /\ got = <<"none">>
    /\ got' = getEnvValue(envArg, keyArg)
    /\ UNCHANGED <<envArg, keyArg>>
    /\ UNCHANGED <<ctorVars, prepVars, concVars>>

EnvNext == Lookup

EnvSpec == EnvInit /\ [][EnvNext]_vars

-----------------------------------------------------------------------------
(* Properties *)

Has(seq, x) == \E n \in 1..Len(seq) : seq[n] = x
Count(seq, x) == Cardinality({n \in 1..Len(seq) : seq[n] = x})
IndexOf(seq, x) == CHOOSE n \in 1..Len(seq) : seq[n] = x /\ \A m \in 1..(n - 1) : seq[m] # x

\* the options applied first to last, as one fold
RECURSIVE FoldOpts(_, _)
FoldOpts(ro, opts) ==
    IF opts = << >> THEN ro
    ELSE FoldOpts(ApplyOpt(Head(opts), ro), Tail(opts))

\* the fields a RunOption writes
Touched(opt) == {f \in {"repo", "tag", "env"} : opt[f][1] # "keep"}

\* position of the first "=" of an environment entry at or after n, 0 if none
RECURSIVE EqPos(_, _)
EqPos(e, n) == IF n > Len(e) THEN 0 ELSE IF e[n] = "=" THEN n ELSE EqPos(e, n + 1)
EntryKey(e) == IF EqPos(e, 1) = 0 THEN e ELSE SubSeq(e, 1, EqPos(e, 1) - 1)
EntryValue(e) == IF EqPos(e, 1) = 0 THEN << >> ELSE SubSeq(e, EqPos(e, 1) + 1, Len(e))
EntriesFor(env, key) == {n \in 1..Len(env) : EntryKey(env[n]) = key}
\* the value of a key that occurs exactly once in env
TheValue(env, key) == EntryValue(env[CHOOSE n \in EntriesFor(env, key) : TRUE])

InRetry == pc \in {"op", "ping", "get", "backoff"}

(* C1: a handle is returned only if a dial-then-probe attempt against the   *)
(* host-mapped endpoint succeeded during the call, and the handle is the    *)
(* client object that attempt created: the latest one, the one probed.      *)
C1_HandleIsTheProbedClient ==
    /\ handle # 0 =>
         /\ pc \in {"returned", "done"}
         /\ handle \in probed
         /\ handle = nclients
         /\ actualPort = hostPort
         /\ launched # NoSpec
    /\ pc \in {"returned", "done"} => handle # 0

C1_Witness ==
    /\ pc = "returned"
    /\ nclients >= 2
    /\ handle = nclients

\* what holds of every state of a readiness wait
C2_State ==
    /\ probed # {} <=> pc \in {"return", "returned", "done"}
    /\ probed # {} =>
         /\ retryStart <= probeTime
         /\ kind \in Relational => probeTime < ctxDeadline
         /\ fatalMsg = ""
    /\ fatalMsg = "failed to connect" =>
         /\ probed = {}
         /\ handle = 0
         /\ pc = "fatal"
         /\ calls = <<"Purge", "Fatalf">>

\* what holds of every step of a readiness wait
C2_Step ==
    /\ probed' # probed => pc' = "return"
    /\ pc = "return" => pc' = "returned" /\ handle' = db /\ nclients' = nclients

(* C2: the readiness wait yields a client iff a probe succeeds inside the   *)
(* budget.  A success is followed at once by the return of that client,     *)
(* with no further attempt; a call whose attempts all failed returns no     *)
(* handle, purges the container and reports the fatal error.                *)
C2_ReadyIffProbeSucceededInBudget == [](C2_State) /\ [][C2_Step]_vars

C2_Witness ==
    /\ pc = "returned"
    /\ kind \in Relational
    /\ probeTime = TickSeconds

(* C3: in the relational constructors the whole readiness wait is bounded   *)
(* by the 30-second deadline: the wait never goes on past it.               *)
C3_WaitBoundedByDeadline ==
    (kind \in Relational /\ InRetry) => clock - retryStart <= CtxTimeout

(* C4: a constructor that aborts after its container was created, for want  *)
(* of a host port or because the readiness wait gave up, calls Purge on the *)
(* container before it reports the fatal error.                             *)
C4_PurgeBeforeFatal ==
    /\ fatalMsg \in {"no host port was assigned", "failed to connect"} =>
         /\ pc = "fatal"
         /\ launched # NoSpec
         /\ Has(calls, "Purge") /\ Has(calls, "Fatalf")
         /\ IndexOf(calls, "Purge") < IndexOf(calls, "Fatalf")
    /\ (pc = "fatal" /\ launched # NoSpec) => Has(calls, "Purge")

C4_Witness ==
    /\ pc = "fatal"
    /\ fatalMsg = "no host port was assigned"

(* C5 as stated: when the run-container operation fails the constructor     *)
(* aborts and performs a best-effort purge of the container.                *)
C5_LaunchFailurePurges ==
    fatalMsg = "failed to start container" => pc = "fatal" /\ Has(calls, "Purge")

(* C5 amended: when the run-container operation fails the constructor       *)
(* aborts the test at once and makes no purge: no resource was returned.    *)
C5_LaunchFailureAbortsWithoutPurge ==
    fatalMsg = "failed to start container" =>
        /\ pc = "fatal"
        /\ calls = <<"Fatalf">>
        /\ launched = NoSpec
        /\ container = "none"
        /\ nclients = 0

C5_Witness ==
    /\ pc = "fatal"
    /\ fatalMsg = "failed to start container"

\* the RunOptions the runtime was handed are the default with the list applied in order
LaunchedIsFold ==
    launched # NoSpec =>
        launched = FoldOpts(DefaultRunOptions(api, kind, tagArg), runOpts)

Commute(o1, o2, ro) == ApplyOpt(o2, ApplyOpt(o1, ro)) = ApplyOpt(o1, ApplyOpt(o2, ro))

(* C6 as stated: the Specification handed to the runtime is the default     *)
(* with O1..On applied in order, and two overrides give the same result in  *)
(* either order only when they touch disjoint fields.                       *)
C6_CommuteOnlyWhenDisjoint ==
    /\ LaunchedIsFold
    /\ \A o1, o2 \in RunOptionChoices(kind) :
         (o1 # o2 /\ Commute(o1, o2, defaultRunOpts)) => Touched(o1) \cap Touched(o2) = {}

(* C6 amended: the Specification handed to the runtime is the default with  *)
(* O1..On applied in order (the empty list gives the default itself), and   *)
(* two overrides that touch disjoint fields give the same result in either  *)
(* order.                                                                   *)
C6_AppliedInOrder ==
    /\ LaunchedIsFold
    /\ (launched # NoSpec /\ runOpts = << >>) => launched = DefaultRunOptions(api, kind, tagArg)
    /\ \A o1, o2 \in RunOptionChoices(kind) :
         Touched(o1) \cap Touched(o2) = {} => Commute(o1, o2, defaultRunOpts)

\* a later override undid an earlier one: the launched Specification is the default again
C6_Witness ==
    /\ launched # NoSpec
    /\ Len(runOpts) = 2
    /\ ApplyOpt(runOpts[1], DefaultRunOptions(api, kind, tagArg)) # DefaultRunOptions(api, kind, tagArg)
    /\ launched = DefaultRunOptions(api, kind, tagArg)

(* C7: when the final environment names one password and one database, the *)
(* connection string of every dial is the kind's format filled with those   *)
(* two values and the host port.                                            *)
C7_DSNEmbedsFinalEnv ==
    ( /\ kind \in Relational
      /\ dsn # << >>
      /\ Cardinality(EntriesFor(launched.Env, PasswordKey(kind))) = 1
      /\ Cardinality(EntriesFor(launched.Env, DatabaseKey(kind))) = 1 )
    => dsn = optionsDSN(kind, TheValue(launched.Env, PasswordKey(kind)),
                        TheValue(launched.Env, DatabaseKey(kind)), actualPort)

(* C8: the release function of a relational constructor calls Close first   *)
(* and Purge second, calls Purge also when Close failed, and only logs an   *)
(* error of either step: the test is never terminated.                      *)
C8_CloseThenPurge ==
    (kind \in Relational /\ pc = "done") =>
        /\ Count(calls, "Close") = 1
        /\ Count(calls, "Purge") = 1
        /\ calls[1] = "Close"
        /\ IndexOf(calls, "Close") < IndexOf(calls, "Purge")
        /\ ~Has(calls, "Fatalf")
        /\ fatalMsg = ""
        /\ container = "running" => calls[Len(calls)] = "Logf"

\* Close failed (its error was logged) and Purge was still called
C8_Witness ==
    /\ kind \in Relational
    /\ pc = "done"
    /\ Len(calls) >= 3
    /\ calls[2] = "Logf"
    /\ calls[3] = "Purge"

C10_SeedFailureRollsBack ==
    (failed # << >> /\ failed[1] = "TxExec") =>
        /\ ppc = "returned"
        /\ prepErr = "failed to execute initial data SQL"
        /\ pending = << >>
        /\ \A n \in 1..Len(applied) : ~(applied[n][1] = failed[2] /\ applied[n][2] >= 1)
        /\ Len(sent) >= 2
        /\ sent[Len(sent) - 1] = failed
        /\ sent[Len(sent)] = <<"Rollback", failed[2], 0>>
        /\ \A n \in 1..Len(sent) :
             /\ sent[n][2] <= failed[2]
             /\ (sent[n][1] = "TxExec" /\ sent[n][2] = failed[2]) => sent[n][3] <= failed[3]
        /\ ~Has(sent, <<"Commit", failed[2], 0>>)

\* the second statement of the second unit failed after the first had been executed
C10_Witness ==
    /\ failed = <<"TxExec", 2, 2>>
    /\ Has(sent, <<"TxExec", 2, 1>>)
    /\ ppc = "returned"

\* position of an operation inside one unit: schema, begin, statements, end of transaction
Rank(op) ==
    IF op[1] = "Exec" THEN 0
    ELSE IF op[1] = "Begin" THEN 1
    ELSE IF op[1] = "TxExec" THEN 1 + op[3]
    ELSE 2 + MaxStmts + 1

\* every operation PrepDatabase issues for unit n when nothing fails
UnitComplete(n) ==
    /\ setups[n].SchemaSQL # "" => Has(sent, <<"Exec", n, 0>>)
    /\ Len(setups[n].InitialData) > 0 =>
          /\ Has(sent, <<"Begin", n, 0>>)
          /\ \A m \in 1..Len(setups[n].InitialData) : Has(sent, <<"TxExec", n, m>>)
          /\ Has(sent, <<"Commit", n, 0>>)

\* what a query on the handle sees after units n..Len(ss) were seeded in full
RECURSIVE Seeded(_, _)
Seeded(ss, n) ==
    IF n > Len(ss) THEN << >>
    ELSE (IF ss[n].SchemaSQL = "" THEN << >> ELSE << <<n, 0>> >>)
         \o [m \in 1..Len(ss[n].InitialData) |-> <<n, m>>]
         \o Seeded(ss, n + 1)

(* C11: when a unit's schema text is non-empty and its execution fails,     *)
(* PrepDatabase returns the wrapped schema-execution error at once: no      *)
(* transaction is opened for that unit, none of its seed statements is      *)
(* executed and no later unit is touched.                                   *)
C11_SchemaFailureAborts ==
    (failed # << >> /\ failed[1] = "Exec") =>
        /\ ppc = "returned"
        /\ prepErr = "failed to execute schema SQL"
        /\ setups[failed[2]].SchemaSQL # ""
        /\ sent[Len(sent)] = failed
        /\ \A n \in 1..Len(sent) :
             /\ sent[n][2] <= failed[2]
             /\ sent[n][2] = failed[2] => sent[n] = failed
        /\ \A n \in 1..Len(applied) : applied[n][1] < failed[2]
        /\ pending = << >>

\* the schema of the second unit failed while that unit has seed statements,
\* after the first unit had been seeded
C11_Witness ==
    /\ failed = <<"Exec", 2, 0>>
    /\ Len(setups[2].InitialData) > 0
    /\ Has(sent, <<"Commit", 1, 0>>)
    /\ ppc = "returned"

(* C12: PrepDatabase processes the units strictly in the order given: every *)
(* database operation of unit i (schema, then begin, then each seed         *)
(* statement in list order, then commit) happens before any operation of    *)
(* unit i+1, and within a unit the schema is executed before the            *)
(* transaction is opened.                                                   *)
C12_UnitsInOrder ==
    /\ \A m, n \in 1..Len(sent) :
         m < n =>
           /\ sent[m][2] <= sent[n][2]
           /\ sent[m][2] = sent[n][2] => Rank(sent[m]) < Rank(sent[n])
    /\ \A n \in 1..Len(sent) :
         /\ sent[n][1] = "Begin" /\ setups[sent[n][2]].SchemaSQL # ""
              => \E m \in 1..(n - 1) : sent[m] = <<"Exec", sent[n][2], 0>>
         /\ sent[n][1] = "TxExec" /\ sent[n][3] > 1
              => sent[n - 1] = <<"TxExec", sent[n][2], sent[n][3] - 1>>
         /\ sent[n][1] = "TxExec" /\ sent[n][3] = 1
              => sent[n - 1] = <<"Begin", sent[n][2], 0>>
         /\ \A j \in 1..(sent[n][2] - 1) : UnitComplete(j)

\* the second unit is being seeded after the first one, which had a schema and
\* two seed statements, was committed
C12_Witness ==
    /\ Len(setups) = 2
    /\ setups[1].SchemaSQL # ""
    /\ Len(setups[1].InitialData) = 2
    /\ Has(sent, <<"TxExec", 2, 1>>)

(* C13: when PrepDatabase returns nil, every unit's non-empty schema has    *)
(* been executed and every seed statement of every unit has been executed   *)
(* and committed, so a row inserted by a seed statement is visible to a     *)
(* following query on the same handle.                                      *)
C13_NilMeansAllSeeded ==
    prepErr = "nil" =>
        /\ ppc = "returned"
        /\ failed = << >>
        /\ pending = << >>
        /\ applied = Seeded(setups, 1)
        /\ \A n \in 1..Len(setups) : UnitComplete(n)
        /\ ~\E n \in 1..Len(sent) : sent[n][1] = "Rollback"

\* PrepDatabase returned nil for two units that both have a schema and seed statements
C13_Witness ==
    /\ prepErr = "nil"
    /\ Len(setups) = 2
    /\ \A n \in 1..2 : setups[n].SchemaSQL # "" /\ Len(setups[n].InitialData) > 0
    /\ Has(applied, <<2, 1>>)

\* the seeding call returned an error value
SeedingFailed == prepErr \notin {"", "nil"}

\* the messages of the four t.Fatalf calls of the constructors
FatalMessages ==
    {"failed to connect to docker", "failed to start container",
     "no host port was assigned", "failed to connect"}

(* C14 as stated: every error category, from runtime unavailable to a       *)
(* seeding failure of schema or data, ends the current test at once through *)
(* the test handle and is never handed back as an error value with which    *)
(* the caller can go on.                                                     *)
C14_EveryErrorEndsTheTest ==
    /\ ~SeedingFailed
    /\ pc = "fatal" => (calls # << >> /\ calls[Len(calls)] = "Fatalf")

\* a constructor that ended the test made no step after its t.Fatalf
C14_FatalIsFinal == pc = "fatal" => UNCHANGED vars

\* categories (a) to (d) end the test in the constructor; category (e) comes
\* back as an error value and the test goes on
C14_State ==
    /\ (pc = "fatal") = (fatalMsg # "")
    /\ fatalMsg \in FatalMessages \cup {""}
    /\ pc = "fatal" =>
          /\ calls # << >> /\ calls[Len(calls)] = "Fatalf"
          /\ Count(calls, "Fatalf") = 1
          /\ handle = 0
          /\ ppc = "idle"
    /\ SeedingFailed =>
          /\ ppc = "returned"
          /\ failed # << >>
          /\ ~Has(calls, "Fatalf")
          /\ fatalMsg = ""
          /\ pc \in {"returned", "done"}
          /\ pc = "returned" => ENABLED Cleanup

(* C14: a failure of the constructors (runtime unavailable, launch failure, *)
(* endpoint-resolution failure, readiness timeout) ends the current test at *)
(* once with t.Fatalf and no handle is returned; a seeding failure of       *)
(* PrepDatabase or PrepMemcached does not end the test: it is returned to   *)
(* the caller as an error value, and the caller goes on.                    *)
C14_ConstructorsAbortSeedingReturns == [](C14_State) /\ [][C14_FatalIsFinal]_vars

\* a seed statement failed, PrepDatabase returned the error, and the test went
\* on to run the release function
C14_Witness ==
    /\ prepErr = "failed to execute initial data SQL"
    /\ pc = "done"
    /\ ~Has(calls, "Fatalf")

\* a seeding call leaves the container, the clients and the calls alone
C15_Step ==
    ppc \notin {"idle", "returned"} =>
        UNCHANGED <<container, openClients, calls, handle, db, launched, fatalMsg>>

\* from the seeding call on, only the release function ends the container
C15_State ==
    ppc # "idle" =>
        /\ pc \in {"returned", "done"}
        /\ pc = "returned" =>
              /\ container = "running"
              /\ handle \in openClients
              /\ calls = << >>
        /\ (container # "running" \/ handle \notin openClients) => Has(calls, "Purge")

(* C15: a seeding failure leaves container and handle untouched:            *)
(* PrepDatabase and PrepMemcached never close the client and never purge    *)
(* the container, whether they succeed or fail, so the container stays live *)
(* until the caller's release function runs.                                *)
C15_SeedingLeavesContainer == [](C15_State) /\ [][C15_Step]_vars

\* PrepMemcached returned an error and the container is still running
C15_Witness ==
    /\ kind = "memcached"
    /\ failed # << >>
    /\ SeedingFailed
    /\ pc = "returned"
    /\ container = "running"

\* a key no one writes
missingKey == "missing-key"

(* C16: after PrepMemcached returns nil for a key->value map, a get of      *)
(* every key of the map returns exactly its value, and a get of a key that  *)
(* was never set returns a not-found error.                                 *)
C16_SeededKeysReadBack ==
    (kind = "memcached" /\ prepErr = "nil" /\ pc = "returned") =>
        /\ \A key \in DOMAIN initialData : Get(cache, key) = initialData[key]
        /\ \A key \in (Keys \cup {missingKey}) \ (DOMAIN initialData \cup {testItem[1]}) :
             Get(cache, key) = "ErrCacheMiss"
        /\ \A key \in Keys \cup {missingKey} : Cardinality({kv \in cache : kv[1] = key}) <= 1

\* PrepMemcached returned nil for a map of three keys, the probe's key among them
C16_Witness ==
    /\ kind = "memcached"
    /\ prepErr = "nil"
    /\ pc = "returned"
    /\ DOMAIN initialData = Keys
    /\ initialData["user:1"] # initialData["user:2"]

\* the Specification the documentation gives for each kind
DocumentedDefault(k) ==
    CASE k = "mysql" ->
           [ Repository |-> "mysql", Tag |-> "8.0",
             Env |-> << EnvEntry(MYSQL_ROOT_PASSWORD, secret), EnvEntry(MYSQL_DATABASE, test) >> ]
      [] k = "postgres" ->
           [ Repository |-> "postgres", Tag |-> "13",
             Env |-> << EnvEntry(POSTGRES_PASSWORD, secret), EnvEntry(POSTGRES_DB, test) >> ]
      [] OTHER ->
           [ Repository |-> "memcached", Tag |-> "1.6", Env |-> << >> ]

\* the default constructor's call leaves the state in which the options
\* constructor starts when it is handed nil
C17_Step ==
    (api = "default" /\ pc = "delegate") =>
        /\ pc' = "applyOpts"
        /\ runOpts' = << >>
        /\ i' = 1
        /\ defaultRunOpts' = DefaultRunOptions("options", kind, "")
        /\ UNCHANGED <<api, kind, launched, container, clock, nclients, calls, handle>>

\* what a default constructor launches, dials and releases
C17_State ==
    (api = "default" /\ pc # "delegate") =>
        /\ runOpts = << >>
        /\ defaultRunOpts = FoldOpts(DefaultRunOptions("options", kind, ""), << >>)
        /\ launched # NoSpec => launched = DocumentedDefault(kind)
        /\ dsn # << >> => dsn = optionsDSN(kind, secret, test, actualPort)
        /\ pc = "done" =>
              calls \in (IF kind \in Relational
                         THEN {dbCleanup(c, q) : c, q \in BOOLEAN}
                         ELSE {memcachedCleanup(q) : q \in BOOLEAN})

(* C17: the default constructors are the options constructors with no       *)
(* overrides: NewMySQL(t) launches what NewMySQLWithOptions(t, nil)         *)
(* launches (mysql, 8.0, MYSQL_ROOT_PASSWORD=secret, MYSQL_DATABASE=test),  *)
(* NewPostgres(t) likewise (postgres, 13, POSTGRES_PASSWORD=secret,         *)
(* POSTGRES_DB=test), NewMemcached(t) likewise (memcached, 1.6), with the   *)
(* same probe and release.                                                  *)
C17_DefaultIsOptionsWithNil == [](C17_State) /\ [][C17_Step]_vars

\* NewPostgres(t) launched its container, returned and was released
C17_Witness ==
    /\ api = "default"
    /\ kind = "postgres"
    /\ launched = DocumentedDefault("postgres")
    /\ pc = "done"

\* the overrides left the Env without the password entry or without the database entry
LostKey ==
    /\ api # "positional"
    /\ kind \in Relational
    /\ pc \notin {"delegate", "applyOpts"}
    /\ \/ EntriesFor(defaultRunOpts.Env, PasswordKey(kind)) = {}
       \/ EntriesFor(defaultRunOpts.Env, DatabaseKey(kind)) = {}

\* between the overrides and the launch nothing looks at what the overrides did
C18_Step ==
    /\ pc = "applyOpts" => pc' \in {"applyOpts", "newPool"}
    /\ (pc = "newPool" /\ pc' = "fatal") => fatalMsg' = "failed to connect to docker"
    /\ (pc = "run" /\ pc' # "fatal") => launched' = defaultRunOpts

\* the missing values are empty strings, the container is launched with the Env
\* as the overrides left it, and a failure after the launch is a purge and a t.Fatalf
C18_State ==
    LostKey =>
        /\ EntriesFor(defaultRunOpts.Env, PasswordKey(kind)) = {} => pass = << >>
        /\ EntriesFor(defaultRunOpts.Env, DatabaseKey(kind)) = {} => dbName = << >>
        /\ launched # NoSpec => launched.Env = defaultRunOpts.Env
        /\ dsn # << >> => dsn = optionsDSN(kind, pass, dbName, actualPort)
        /\ (pc = "fatal" /\ launched = NoSpec) =>
              /\ fatalMsg \in {"failed to connect to docker", "failed to start container"}
              /\ calls = <<"Fatalf">>
        /\ (pc = "fatal" /\ launched # NoSpec) =>
              /\ fatalMsg \in {"no host port was assigned", "failed to connect"}
              /\ calls = <<"Purge", "Fatalf">>
        /\ fatalMsg = "failed to connect" => (nclients > 0 \/ dsn # << >>)

(* C18: no validation is performed on the effect of overrides: an override  *)
(* that removes the password or database environment key never makes the    *)
(* constructor fail before the container is launched; the container is      *)
(* still launched, and the error surfaces only later as a readiness-probe   *)
(* failure followed by purge and fatal abort.                               *)
C18_NoValidationOfOverrides == [](C18_State) /\ [][C18_Step]_vars

\* the Env was emptied, the container was launched with it, every probe failed
\* and the constructor purged and aborted
C18_Witness ==
    /\ LostKey
    /\ launched # NoSpec
    /\ launched.Env = << >>
    /\ pass = << >>
    /\ fatalMsg = "failed to connect"
    /\ calls = <<"Purge", "Fatalf">>

\* the struct, the container or the handle of call a is also that of call b
Shares(a, b) ==
    \/ invs[a].ro # 0 /\ invs[a].ro = invs[b].ro
    \/ invs[a].cont # 0 /\ invs[a].cont = invs[b].cont
    \/ invs[a].handle # 0 /\ invs[a].handle = invs[b].handle

\* each call has its own struct, container and handle, launches its own
\* defaults under its own overrides, and its handle is on its own container
C19_State ==
    /\ \A a, b \in Invocations : a # b => ~Shares(a, b)
    /\ \A a \in Invocations :
         /\ invs[a].cont # 0 =>
               conts[invs[a].cont].spec =
                   FoldOpts(DocumentedDefault(invs[a].kind), invs[a].opts)
         /\ invs[a].handle # 0 => clients[invs[a].handle].cont = invs[a].cont
         /\ (invs[a].cont # 0 /\ conts[invs[a].cont].state = "purged")
               => invs[a].pc \in {"done", "fatal"}
         /\ (invs[a].handle # 0 /\ ~clients[invs[a].handle].open) => invs[a].pc = "done"

\* a step of one call ends no container and closes no client but its own
C19_Step ==
    \A a \in Invocations :
        invs'[a] = invs[a] =>
            /\ invs[a].cont # 0 => conts'[invs[a].cont] = conts[invs[a].cont]
            /\ invs[a].handle # 0 => clients'[invs[a].handle] = clients[invs[a].handle]
            /\ invs[a].ro # 0 => objs'[invs[a].ro] = objs[invs[a].ro]

(* C19: each constructor invocation produces its own container and its own  *)
(* handle and builds its own fresh default Specification: across any        *)
(* interleaving of invocations no two share a container or a handle, the    *)
(* overrides of one never change the Specification another launches, and    *)
(* one invocation's release function purges only its own container.         *)
C19_InvocationsShareNothing == [](C19_State) /\ [][C19_Step]_vars

\* a call with a tag override and a call of the same kind without overrides both
\* returned; the first was released and the second's container is still running
C19_Witness ==
    /\ invs # << >>
    /\ invs[1].kind = invs[2].kind
    /\ invs[1].opts = << customTag >>
    /\ invs[2].opts = << >>
    /\ invs[1].pc = "done"
    /\ invs[2].pc = "returned"
    /\ conts[invs[2].cont].state = "running"
    /\ conts[invs[1].cont].state = "purged"

\* the constructor call is over
Ended == pc \in {"returned", "fatal", "done"}

\* while pool.Retry runs, the time spent in it is below its budget plus one
\* sleep and one attempt, and the attempts made are as many at most
C20_Bounded ==
    InRetry =>
        /\ clock - retryStart < PoolMaxWait + 2 * TickSeconds
        /\ nclients * TickSeconds <= PoolMaxWait + 2 * TickSeconds

(* C20: every constructor call terminates for all three resource kinds,     *)
(* including when the service never becomes ready: it ends either by        *)
(* returning (handle, release) or by a fatal abort, and never retries       *)
(* forever; this holds for the Memcached path too, which sets no deadline   *)
(* of its own.                                                              *)
C20_ConstructorTerminates == [](C20_Bounded) /\ <>(Ended)

\* NewMemcached against a service that never became ready gave up and aborted
C20_Witness ==
    /\ kind = "memcached"
    /\ ~ready
    /\ fatalMsg = "failed to connect"
    /\ clock - retryStart >= PoolMaxWait

\* the transactions db.Begin() opened so far: the units whose Begin did not fail
Opened == {sent[n][2] : n \in {m \in 1..Len(sent) : sent[m][1] = "Begin" /\ sent[m] # failed}}

\* how many of the first n operations are of the kind op
CountUpTo(op, n) == Cardinality({m \in 1..n : sent[m][1] = op})

\* the transactions open after the first n operations
OpenAfter(n) ==
    (CountUpTo("Begin", n) - (IF failed # << >> /\ failed[1] = "Begin" /\ n = Len(sent) THEN 1 ELSE 0))
        - CountUpTo("Commit", n) - CountUpTo("Rollback", n)

\* how the transaction of unit n was ended so far
Enders(n) == Count(sent, <<"Commit", n, 0>>) + Count(sent, <<"Rollback", n, 0>>)

(* C21: PrepDatabase opens exactly one transaction for each unit whose seed *)
(* list is non-empty and none for a unit whose seed list is empty; at most  *)
(* one transaction is open at any time; every opened transaction is ended   *)
(* by exactly one commit or one rollback before PrepDatabase returns; and a *)
(* failure of begin or of commit is returned as a wrapped error that stops  *)
(* all later units.                                                         *)
C21_OneTransactionPerUnit ==
    /\ \A n \in 1..Len(setups) :
         /\ Count(sent, <<"Begin", n, 0>>) <= 1
         /\ Len(setups[n].InitialData) = 0 => Count(sent, <<"Begin", n, 0>>) = 0
         /\ (Len(setups[n].InitialData) > 0 /\ (n < unit \/ prepErr = "nil"))
              => Count(sent, <<"Begin", n, 0>>) = 1
         /\ Enders(n) <= 1
         /\ Enders(n) = 1 => n \in Opened
    /\ \A n \in 0..Len(sent) : OpenAfter(n) \in {0, 1}
    /\ ppc = "returned" => (OpenAfter(Len(sent)) = 0 /\ \A n \in Opened : Enders(n) = 1)
    /\ (failed # << >> /\ failed[1] \in {"Begin", "Commit"}) =>
          /\ ppc = "returned"
          /\ prepErr = (IF failed[1] = "Begin" THEN "failed to begin transaction"
                        ELSE "failed to commit transaction")
          /\ sent[Len(sent)] = failed
          /\ \A n \in 1..Len(sent) : sent[n][2] <= failed[2]

\* the commit of the first of two units failed, both units having seed statements
C21_Witness ==
    /\ failed = <<"Commit", 1, 0>>
    /\ Len(setups) = 2
    /\ Len(setups[2].InitialData) > 0
    /\ ppc = "returned"

\* what the handle sees of units 1..j-1 when all of them were seeded in full
SeededBefore(j) == Seeded(SubSeq(setups, 1, j - 1), 1)

\* what was applied stays applied
C22_Step == Len(applied') >= Len(applied) /\ SubSeq(applied', 1, Len(applied)) = applied

\* after a failure in unit j the earlier units are applied in full, and so is
\* the schema of unit j unless it is what failed; nothing of j's seed list is
C22_State ==
    failed # << >> =>
        LET j == failed[2]
            ownSchema == IF failed[1] # "Exec" /\ setups[j].SchemaSQL # ""
                         THEN << <<j, 0>> >> ELSE << >>
        IN applied = SeededBefore(j) \o ownSchema

(* C22: PrepDatabase is atomic only per unit's seed list, not across the    *)
(* call: when unit j fails (in its schema, a seed statement, begin or       *)
(* commit), the schemas and committed seed data of units 1..j-1 remain      *)
(* applied, and when the failure is in unit j's seed statements the         *)
(* already-executed schema of unit j also remains applied; nothing executed *)
(* outside the failing transaction is undone.                               *)
C22_AtomicPerUnitOnly == [](C22_State) /\ [][C22_Step]_vars

\* the second statement of the second unit failed; the first unit and the
\* second unit's schema are applied
C22_Witness ==
    /\ failed = <<"TxExec", 2, 2>>
    /\ setups[1].SchemaSQL # ""
    /\ setups[2].SchemaSQL # ""
    /\ Has(applied, <<1, 1>>)
    /\ Has(applied, <<2, 0>>)
    /\ ~Has(applied, <<2, 1>>)

\* once the deadline has passed, no step of the wait records a successful probe
\* or hands out a client, while attempts go on
C23_Step ==
    (kind \in Relational /\ InRetry /\ clock >= ctxDeadline) =>
        /\ probed' = probed
        /\ handle' = 0
        /\ pc' \in {"op", "ping", "backoff", "fatal"}

\* a returned handle rests on a probe that ended before the deadline
C23_State ==
    (kind \in Relational /\ (handle # 0 \/ pc = "return")) =>
        /\ probeTime >= retryStart
        /\ probeTime < retryStart + CtxTimeout
        /\ db \in probed

(* C23: in the relational constructors a handle is never returned on the    *)
(* strength of a probe made after the 30-second deadline: once the deadline *)
(* context has expired every later probe attempt fails, so a service that   *)
(* becomes ready only after the deadline never yields a handle even while   *)
(* the runtime's retry loop is still making attempts.                       *)
C23_NoHandleAfterDeadline == [](C23_State) /\ [][C23_Step]_vars

\* the deadline has passed, the service is ready by now, and pool.Retry is at
\* one more ping
C23_Witness ==
    /\ kind \in Relational
    /\ pc = "ping"
    /\ clock > ctxDeadline
    /\ ready
    /\ probed = {}

(* C24: exactly one client handle exists per launched container: every      *)
(* client object that a dial creates during a failed dial/probe attempt is  *)
(* closed, so when a constructor returns the only open client is the        *)
(* returned handle, and when it aborts on readiness failure no client       *)
(* object is left open.                                                     *)
C24_FailedAttemptsAreClosed ==
    /\ pc = "returned" => openClients = {handle}
    /\ fatalMsg = "failed to connect" => openClients = {}

\* entry e starts with the characters of k followed by "="
StartsWithKey(e, k) ==
    /\ Len(e) >= Len(k) + 1
    /\ \A m \in 1..Len(k) : e[m] = k[m]
    /\ e[Len(k) + 1] = "="

\* the positions of list l whose entry starts with k followed by "="
Matches(l, k) == {n \in 1..Len(l) : StartsWithKey(l[n], k)}

\* the characters of e after the first n
After(e, n) == [m \in 1..(Len(e) - n) |-> e[m + n]]

\* what the lookup of k in l is to return
FirstValue(l, k) ==
    IF Matches(l, k) = {} THEN << >>
    ELSE LET first == CHOOSE n \in Matches(l, k) : \A m \in Matches(l, k) : n <= m
         IN After(l[first], Len(k) + 1)

(* C25: getEnvValue(env, key) returns the text after "key=" of the first    *)
(* entry of env that starts with exactly "key=", and the empty string when  *)
(* no entry does (including for an empty env); an entry whose name merely   *)
(* has key as a prefix (MY_VARIABLE when looking up MY_VAR) is never        *)
(* matched, whatever the order of the entries.                              *)
C25_FirstExactKey ==
    got # <<"none">> =>
        /\ got = FirstValue(envArg, keyArg)
        /\ (keyArg = MY_VAR /\ \A n \in 1..Len(envArg) : envArg[n] \in {EnvEntry(MY_VARIABLE, <<"4","5","6">>), MY_VAR})
              => got = << >>
        /\ envArg = << >> => got = << >>

\* MY_VAR was looked up in a list that has the MY_VARIABLE entry first and two
\* MY_VAR entries after it
C25_Witness ==
    /\ keyArg = MY_VAR
    /\ Len(envArg) = 3
    /\ envArg[1] = EnvEntry(MY_VARIABLE, <<"4","5","6">>)
    /\ envArg[2] = EnvEntry(MY_VAR, <<"7","8","9">>)
    /\ envArg[3] = EnvEntry(MY_VAR, <<"1","2","3">>)
    /\ got = <<"7","8","9">>

\* the first and the last entry of the launched Env for key k
FirstEntry(e, k) == e[CHOOSE n \in EntriesFor(e, k) : \A m \in EntriesFor(e, k) : n <= m]
LastEntry(e, k) == e[CHOOSE n \in EntriesFor(e, k) : \A m \in EntriesFor(e, k) : n >= m]

\* the options constructor of a relational kind has read the Env
Captured == api # "positional" /\ kind \in Relational /\ pc \notin {"delegate", "applyOpts"}

(* C26: when the final environment list holds several entries for the same  *)
(* key (an override appends MYSQL_DATABASE=custom_test after the default    *)
(* MYSQL_DATABASE=test), the connection string is built from the first      *)
(* entry for that key: the password and database name in it are those of   *)
(* the earliest entry and not those of the override added last.             *)
C26_FirstEntryWins ==
    Captured =>
        /\ EntriesFor(defaultRunOpts.Env, PasswordKey(kind)) # {} =>
              pass = EntryValue(FirstEntry(defaultRunOpts.Env, PasswordKey(kind)))
        /\ EntriesFor(defaultRunOpts.Env, DatabaseKey(kind)) # {} =>
              dbName = EntryValue(FirstEntry(defaultRunOpts.Env, DatabaseKey(kind)))
        /\ dsn # << >> =>
              dsn = (IF kind = "mysql" THEN mysqlDSN(pass, actualPort, dbName)
                     ELSE postgresDSN(pass, actualPort, dbName))

\* MYSQL_DATABASE=custom_test was appended after MYSQL_DATABASE=test, and the
\* connection string dialled names the database test
C26_Witness ==
    /\ Captured
    /\ kind = "mysql"
    /\ Cardinality(EntriesFor(defaultRunOpts.Env, MYSQL_DATABASE)) = 2
    /\ EntryValue(FirstEntry(defaultRunOpts.Env, MYSQL_DATABASE)) = test
    /\ EntryValue(LastEntry(defaultRunOpts.Env, MYSQL_DATABASE)) = custom_test
    /\ dsn = mysqlDSN(secret, hostPort, test)

\* the keys PrepMemcached has set with success
SetOK == {sent[n][2] : n \in {m \in 1..Len(sent) : sent[m][1] = "Set" /\ sent[m] # failed}}

(* C27: PrepMemcached stops at the first key whose set fails and returns a  *)
(* wrapped error naming that key: no further key is set after the failure,  *)
(* keys already set are not removed (no rollback), and because the map is   *)
(* visited in no fixed order the keys stored at that point can be any       *)
(* subset of the map that excludes the failing key.                         *)
C27_StopsAtFirstFailingKey ==
    (failed # << >> /\ failed[1] = "Set") =>
        /\ ppc = "returned"
        /\ prepErr = "failed to set key"
        /\ failed[2] \in DOMAIN initialData
        /\ failed[3] = initialData[failed[2]]
        /\ sent[Len(sent)] = failed
        /\ \A m, n \in 1..Len(sent) : m # n => sent[m][2] # sent[n][2]
        /\ failed[2] \notin SetOK
        /\ SetOK \subseteq DOMAIN initialData
        /\ \A k \in SetOK : Get(cache, k) = initialData[k]
        /\ \A k \in (Keys \cup {missingKey}) \ (SetOK \cup {failed[2]}) :
             Get(cache, k) = (IF k = testItem[1] THEN testItem[2] ELSE "ErrCacheMiss")

\* of a map of three keys the set of user:1 failed after user:2 alone was stored
C27_Witness ==
    /\ failed # << >>
    /\ failed[1] = "Set"
    /\ failed[2] = "user:1"
    /\ DOMAIN initialData = Keys
    /\ SetOK = {"user:2"}
    /\ Get(cache, "user:2") = initialData["user:2"]

\* the caller has asked for a set of the probe's key
CallerWroteProbeKey == \E n \in 1..Len(sent) : sent[n][1] = "Set" /\ sent[n][2] = "test_connection"

\* no step takes a key out of the cache
C28_Step == \A kv \in cache : \E kv2 \in cache' : kv2[1] = kv[1]

\* a returned client's cache holds the probe's item, and beside it what the
\* caller has stored since
C28_State ==
    (kind = "memcached" /\ pc \in {"return", "returned"}) =>
        /\ ~CallerWroteProbeKey => Get(cache, "test_connection") = "test_value"
        /\ \E kv \in cache : kv[1] = "test_connection"
        /\ \A k \in SetOK : Get(cache, k) = initialData[k]

(* C28: the Memcached readiness probe is a set of key "test_connection"     *)
(* with value "test_value" followed by a get of the same key, and it never  *)
(* deletes the key: whenever NewMemcached or NewMemcachedWithOptions        *)
(* returns a client, the cache holds "test_connection" = "test_value" in    *)
(* addition to whatever the caller later stores.                            *)
C28_ProbeKeyStays == [](C28_State) /\ [][C28_Step]_vars

\* NewMemcachedWithOptions returned on its second attempt, the probe's item is
\* in the cache
C28_Witness ==
    /\ kind = "memcached"
    /\ api = "options"
    /\ pc = "returned"
    /\ nclients = 2
    /\ cache = {<<"test_connection", "test_value">>}

====
